---- MODULE Spec2Model ----
(***************************************************************************)
(* The flow network of flow2go.go: main drives a splitter, a wordCounter,  *)
(* a letterCounter and a printer, connected by Go channels.  The printer   *)
(* merges its two inputs through printer.merge (two output goroutines and  *)
(* one goroutine that closes the merged channel after wg.Wait).            *)
(*                                                                         *)
(* Every goroutine is a process with a program counter; a step is one      *)
(* channel operation, one WaitGroup operation or one Println.              *)
(***************************************************************************)
EXTENDS Integers, Sequences, FiniteSets, Bags, TLC

\* ------------------------------------------------------------------ bounds
\* Largest number of sentences main sends before it closes the source.
MaxN == 2
\* A small channel capacity, so that senders do meet a full buffer.
SmallCap == 1
\* Largest length of the strings the counters are tried on one by one.
MaxLen == 3

\* --------------------------------------------------------------- constants
\* make(chan string, 10): the capacity of the five data channels in main.
ChanCap == 10
\* wg.Add(2) in printer.merge.
MergeInputs == 2

\* ----------------------------------------------------------------- strings
\* Mutant of Letter: the expression [a-z], without the capitals.
LetterSmallOnly ==
    {"a", "b", "c", "d", "e", "f", "g", "h", "i", "j", "k", "l", "m",
     "n", "o", "p", "q", "r", "s", "t", "u", "v", "w", "x", "y", "z"}

\* A Go string is a sequence of one-character strings.
Letter ==
    {"a", "b", "c", "d", "e", "f", "g", "h", "i", "j", "k", "l", "m",
     "n", "o", "p", "q", "r", "s", "t", "u", "v", "w", "x", "y", "z",
     "A", "B", "C", "D", "E", "F", "G", "H", "I", "J", "K", "L", "M",
     "N", "O", "P", "Q", "R", "S", "T", "U", "V", "W", "X", "Y", "Z"}

\* The sentences main may send, in the order it sends them: the first two
\* have the same number of words and different numbers of letters, the third
\* has two consecutive spaces, the last is the empty string.
Corpus ==
    << <<"I", " ", "a", "m", ".">>,
       <<"G", "o", " ", "o", "n">>,
       <<"a", " ", " ", "b">>,
       <<>> >>

\* "I never put off till tomorrow what I can do the day after."
Sentence1 ==
    <<"I", " ", "n", "e", "v", "e", "r", " ", "p", "u", "t", " ", "o",
      "f", "f", " ", "t", "i", "l", "l", " ", "t", "o", "m", "o", "r",
      "r", "o", "w", " ", "w", "h", "a", "t", " ", "I", " ", "c", "a",
      "n", " ", "d", "o", " ", "t", "h", "e", " ", "d", "a", "y", " ",
      "a", "f", "t", "e", "r", ".">>

\* "Fashion is a form of ugliness so intolerable that we have to alter it every six months."
Sentence2 ==
    <<"F", "a", "s", "h", "i", "o", "n", " ", "i", "s", " ", "a", " ",
      "f", "o", "r", "m", " ", "o", "f", " ", "u", "g", "l", "i", "n",
      "e", "s", "s", " ", "s", "o", " ", "i", "n", "t", "o", "l", "e",
      "r", "a", "b", "l", "e", " ", "t", "h", "a", "t", " ", "w", "e",
      " ", "h", "a", "v", "e", " ", "t", "o", " ", "a", "l", "t", "e",
      "r", " ", "i", "t", " ", "e", "v", "e", "r", "y", " ", "s", "i",
      "x", " ", "m", "o", "n", "t", "h", "s", ".">>

\* "Life is too important to be taken seriously."
Sentence3 ==
    <<"L", "i", "f", "e", " ", "i", "s", " ", "t", "o", "o", " ", "i",
      "m", "p", "o", "r", "t", "a", "n", "t", " ", "t", "o", " ", "b",
      "e", " ", "t", "a", "k", "e", "n", " ", "s", "e", "r", "i", "o",
      "u", "s", "l", "y", ".">>

\* The three sentences main sends, in its order.
Reference == <<Sentence1, Sentence2, Sentence3>>

\* Mutant of Split: strings.Fields, which drops the empty tokens.
SplitFields(s, sep) ==
    LET at == {i \in DOMAIN s : s[i] # sep /\ (i = 1 \/ s[i - 1] = sep)}
        From(k) == CHOOSE i \in at : Cardinality({j \in at : j < i}) = k - 1
        To(i) == CHOOSE j \in i .. Len(s) :
                    /\ \A m \in i .. j : s[m] # sep
                    /\ j = Len(s) \/ s[j + 1] = sep
    IN  [k \in 1 .. Cardinality(at) |-> SubSeq(s, From(k), To(From(k)))]

\* strings.Split(s, sep) for a one-character sep: the tokens between the
\* occurrences of sep, empty tokens included.  With n occurrences there are
\* n + 1 tokens; Cut(k) is the position of the k-th occurrence, Cut(0) the
\* position before s and Cut(n + 1) the one after it.
Split(s, sep) ==
    LET at == {i \in DOMAIN s : s[i] = sep}
        n == Cardinality(at)
        Cut(k) ==
            IF k = 0 THEN 0
            ELSE IF k = n + 1 THEN Len(s) + 1
            ELSE CHOOSE i \in at : Cardinality({j \in at : j < i}) = k - 1
    IN  [k \in 1 .. n + 1 |-> SubSeq(s, Cut(k - 1) + 1, Cut(k) - 1)]

\* lc.re.FindAllString(sentence, -1) for the expression [a-zA-Z]: the
\* one-letter matches, in order.
FindAllString(s) == SelectSeq(s, LAMBDA c : c \in Letter)

\* Mutant of WordCount: the spaces are counted, not the tokens.
WordCountSpaces(sentence) ==
    [tag |-> "Words", count |-> Len(Split(sentence, " ")) - 1]

\* &count{"Words", len(strings.Split(sentence, " "))}
WordCount(sentence) == [tag |-> "Words", count |-> Len(Split(sentence, " "))]

\* Mutant of LetterCount: the expression "." for "[a-zA-Z]", which matches
\* every character.
LetterCountAnyChar(sentence) == [tag |-> "Letters", count |-> Len(sentence)]

\* &count{"Letters", len(lc.re.FindAllString(sentence, -1))}
LetterCount(sentence) == [tag |-> "Letters", count |-> Len(FindAllString(sentence))]

\* ------------------------------------------------------------------ wiring
DataChans == {"in", "sToWc", "sToLc", "wcToP", "lcToP"}
Chans == DataChans \cup {"out", "done"}

Nodes == {"splitter", "wordCounter", "letterCounter", "printer"}
Procs == Nodes \cup {"main", "output1", "output2", "closer"}

\* The order in which main calls Process().
MainOrder == <<"splitter", "wordCounter", "letterCounter", "printer">>

\* Mutant of InPort: both output goroutines are started on p.Line2.
InPortBothLine2(p) ==
    CASE p = "splitter"      -> "in"
      [] p = "wordCounter"   -> "sToWc"
      [] p = "letterCounter" -> "sToLc"
      [] p = "output1"       -> "lcToP"
      [] p = "output2"       -> "lcToP"
      [] p = "printer"       -> "out"

\* Mutant of InPort: the letter counter is wired to the splitter's Out1.
InPortLetterCounterOnOut1(p) ==
    CASE p = "splitter"      -> "in"
      [] p = "wordCounter"   -> "sToWc"
      [] p = "letterCounter" -> "sToWc"
      [] p = "output1"       -> "wcToP"
      [] p = "output2"       -> "lcToP"
      [] p = "printer"       -> "out"

\* The input port of every goroutine that receives in a loop.
InPort(p) ==
    CASE p = "splitter"      -> "in"
      [] p = "wordCounter"   -> "sToWc"
      [] p = "letterCounter" -> "sToLc"
      [] p = "output1"       -> "wcToP"
      [] p = "output2"       -> "lcToP"
      [] p = "printer"       -> "out"

\* The goroutine that receives from a channel (done is read by main, which
\* never takes a value from it).
Reader(ch) ==
    CASE ch = "in"    -> "splitter"
      [] ch = "sToWc" -> "wordCounter"
      [] ch = "sToLc" -> "letterCounter"
      [] ch = "wcToP" -> "output1"
      [] ch = "lcToP" -> "output2"
      [] ch = "out"   -> "printer"

\* Where a goroutine continues after it has received a value.
AfterRecv(p) ==
    CASE p = "splitter" -> "send1"
      [] p = "printer"  -> "print"
      [] OTHER          -> "send"

\* ------------------------------------------------------------------- state
VARIABLES
    pc,         \* pc[p]: where process p is; "idle" = goroutine not started
    val,        \* val[p]: <<v>> when p holds a received value v, else <<>>
    buf,        \* buf[ch]: the values buffered in channel ch
    closed,     \* closed[ch]: ch has been closed
    cap,        \* cap[ch]: capacity of ch
    sent,       \* sent[ch]: every value sent on ch so far, in order
    rcvd,       \* rcvd[ch]: every value received from ch so far, in order
    closes,     \* closes[ch]: the processes that called close(ch), in order
    wg,         \* the WaitGroup counter of printer.merge
    re,         \* lc.re: "nil" or the compiled expression
    stdout,     \* the lines printed so far by the processes in logged
    logged,     \* the processes whose lines stdout records
    panic,      \* "none", or the runtime panic that ended the program
    input,      \* the sentences main sends
    sendIdx,    \* number of sentences main has sent
    order,      \* the order in which main starts the nodes
    started     \* number of Process() calls main has completed

vars == <<pc, val, buf, closed, cap, sent, rcvd, closes, wg, re, stdout,
          logged, panic, input, sendIdx, order, started>>

chanVars == <<buf, closed, sent, rcvd, closes>>
mainVars == <<input, sendIdx, order, started, cap, logged>>

\* The capacities of the data channels: that of main, and smaller ones that
\* make a sender wait for room (0 is the synchronous handoff).
Caps == (0 .. SmallCap) \cup {ChanCap}

\* main, lines 246-278: nodes created, channels made, ports connected.
InitWith(c, in, ord, log) ==
    /\ pc = [p \in Procs |-> IF p = "main" THEN "begin" ELSE "idle"]
    /\ val = [p \in Procs |-> <<>>]
    /\ buf = [ch \in Chans |-> <<>>]
    /\ closed = [ch \in Chans |-> FALSE]
    /\ cap = [ch \in Chans |-> IF ch \in DataChans THEN c ELSE 0]
    /\ sent = [ch \in Chans |-> <<>>]
    /\ rcvd = [ch \in Chans |-> <<>>]
    /\ closes = [ch \in Chans |-> <<>>]
    /\ wg = 0
    /\ re = "nil"
    /\ stdout = <<>>
    /\ logged = log
    /\ panic = "none"
    /\ input = in
    /\ sendIdx = 0
    /\ order = ord
    /\ started = 0

\* The console as far as main and the printer write it: the lines of the
\* other goroutines fall between these in any order.
MainAndPrinter == {"main", "printer"}

\* main sends the first n sentences of the corpus, for every n up to MaxN.
Init ==
    \E c \in Caps, n \in 0 .. MaxN :
        InitWith(c, SubSeq(Corpus, 1, n), MainOrder, MainAndPrinter)

\* The program runs until main returns or a goroutine panics.
Running == panic = "none" /\ pc["main"] # "exit"

\* --------------------------------------------------------- channel helpers
\* ch <- v by process p, which continues at next holding keep.
\* A send on a closed channel panics.  Otherwise the value goes into the
\* buffer when there is room, or straight to the receiver waiting on an
\* unbuffered channel.
Send(p, ch, v, next, keep) ==
    \/ /\ closed[ch]
       /\ panic' = "send on closed channel"
       /\ UNCHANGED <<pc, val, buf, closed, sent, rcvd, closes>>
    \/ /\ ~closed[ch]
       /\ Len(buf[ch]) < cap[ch]
       /\ buf' = [buf EXCEPT ![ch] = Append(@, v)]
       /\ sent' = [sent EXCEPT ![ch] = Append(@, v)]
       /\ pc' = [pc EXCEPT ![p] = next]
       /\ val' = [val EXCEPT ![p] = keep]
       /\ UNCHANGED <<closed, rcvd, closes, panic>>
    \/ /\ ~closed[ch]
       /\ cap[ch] = 0
       /\ pc[Reader(ch)] = "recv"
       /\ sent' = [sent EXCEPT ![ch] = Append(@, v)]
       /\ rcvd' = [rcvd EXCEPT ![ch] = Append(@, v)]
       /\ pc' = [pc EXCEPT ![p] = next, ![Reader(ch)] = AfterRecv(Reader(ch))]
       /\ val' = [val EXCEPT ![p] = keep, ![Reader(ch)] = <<v>>]
       /\ UNCHANGED <<buf, closed, closes, panic>>

\* v, ok := <-ch by process p: a buffered value if there is one (ok), the
\* zero value once ch is closed and drained (!ok); blocks otherwise.
Recv(p, ch, nextOk, nextClosed) ==
    \/ /\ buf[ch] # <<>>
       /\ val' = [val EXCEPT ![p] = <<Head(buf[ch])>>]
       /\ buf' = [buf EXCEPT ![ch] = Tail(@)]
       /\ rcvd' = [rcvd EXCEPT ![ch] = Append(@, Head(buf[ch]))]
       /\ pc' = [pc EXCEPT ![p] = nextOk]
       /\ UNCHANGED <<closed, sent, closes, panic>>
    \/ /\ buf[ch] = <<>>
       /\ closed[ch]
       /\ val' = [val EXCEPT ![p] = <<>>]
       /\ pc' = [pc EXCEPT ![p] = nextClosed]
       /\ UNCHANGED <<buf, closed, sent, rcvd, closes, panic>>

\* close(ch) by process p; closing a closed channel panics.
Close(p, ch, next) ==
    \/ /\ closed[ch]
       /\ panic' = "close of closed channel"
       /\ closes' = [closes EXCEPT ![ch] = Append(@, p)]
       /\ UNCHANGED <<pc, val, buf, closed, sent, rcvd>>
    \/ /\ ~closed[ch]
       /\ closed' = [closed EXCEPT ![ch] = TRUE]
       /\ closes' = [closes EXCEPT ![ch] = Append(@, p)]
       /\ pc' = [pc EXCEPT ![p] = next]
       /\ UNCHANGED <<val, buf, sent, rcvd, panic>>

\* fmt.Println(line) by process p.
Written(p, line) == IF p \in logged THEN Append(stdout, line) ELSE stdout

Println(p, line, next) ==
    /\ stdout' = Written(p, line)
    /\ pc' = [pc EXCEPT ![p] = next]

\* -------------------------------------------------------------------- main
\* Mutant of AfterProcess: the driver stops starting nodes once it has
\* started the sink.
AfterProcessUntilSink ==
    IF started + 1 = Len(order) \/ order[started + 1] = "printer"
    THEN "announce" ELSE "start"

\* Where main continues after a Process() call has returned.
AfterProcess == IF started + 1 = Len(order) THEN "announce" ELSE "start"

\* fmt.Println("Start the nodes.")
MainBegin ==
    /\ Running /\ pc["main"] = "begin"
    /\ Println("main", <<"Start the nodes.">>, "start")
    /\ UNCHANGED <<val, chanVars, wg, re, panic, mainVars>>

\* Mutant of SplitterProcess: the caller itself waits for the first value
\* of In before it starts the goroutine.
SplitterProcessBlocking ==
    /\ Running /\ pc["main"] = "start" /\ order[started + 1] = "splitter"
    /\ buf["in"] # <<>>
    /\ stdout' = Written("main", <<"Splitter starts.">>)
    /\ pc' = [pc EXCEPT !["splitter"] = "recv", !["main"] = AfterProcess]
    /\ started' = started + 1
    /\ UNCHANGED <<val, chanVars, wg, re, panic, input, sendIdx, order, cap, logged>>

\* s.Process(): prints and starts the splitter's goroutine.
SplitterProcess ==
    /\ Running /\ pc["main"] = "start" /\ order[started + 1] = "splitter"
    /\ stdout' = Written("main", <<"Splitter starts.">>)
    /\ pc' = [pc EXCEPT !["splitter"] = "recv", !["main"] = AfterProcess]
    /\ started' = started + 1
    /\ UNCHANGED <<val, chanVars, wg, re, panic, input, sendIdx, order, cap, logged>>

\* wc.Process()
WordCounterProcess ==
    /\ Running /\ pc["main"] = "start" /\ order[started + 1] = "wordCounter"
    /\ stdout' = Written("main", <<"WordCounter starts.">>)
    /\ pc' = [pc EXCEPT !["wordCounter"] = "recv", !["main"] = AfterProcess]
    /\ started' = started + 1
    /\ UNCHANGED <<val, chanVars, wg, re, panic, input, sendIdx, order, cap, logged>>

\* lc.Process(): the goroutine begins with lc.Init().
LetterCounterProcess ==
    /\ Running /\ pc["main"] = "start" /\ order[started + 1] = "letterCounter"
    /\ stdout' = Written("main", <<"LetterCounter starts.">>)
    /\ pc' = [pc EXCEPT !["letterCounter"] = "init", !["main"] = AfterProcess]
    /\ started' = started + 1
    /\ UNCHANGED <<val, chanVars, wg, re, panic, input, sendIdx, order, cap, logged>>

\* p.Process(): prints and enters p.merge().
PrinterProcess ==
    /\ Running /\ pc["main"] = "start" /\ order[started + 1] = "printer"
    /\ Println("main", <<"Printer starts.">>, "mergeAdd")
    /\ UNCHANGED <<val, chanVars, wg, re, panic, mainVars>>

\* Mutant of MergeAdd: wg.Add(1).
MergeAddOne ==
    /\ Running /\ pc["main"] = "mergeAdd"
    /\ wg' = wg + 1
    /\ pc' = [pc EXCEPT !["main"] = "mergeGo1"]
    /\ UNCHANGED <<val, chanVars, re, stdout, panic, mainVars>>

\* wg.Add(2)
MergeAdd ==
    /\ Running /\ pc["main"] = "mergeAdd"
    /\ wg' = wg + MergeInputs
    /\ pc' = [pc EXCEPT !["main"] = "mergeGo1"]
    /\ UNCHANGED <<val, chanVars, re, stdout, panic, mainVars>>

\* go output(p.Line1)
MergeGoOutput1 ==
    /\ Running /\ pc["main"] = "mergeGo1"
    /\ pc' = [pc EXCEPT !["main"] = "mergeGo2", !["output1"] = "recv"]
    /\ UNCHANGED <<val, chanVars, wg, re, stdout, panic, mainVars>>

\* go output(p.Line2)
MergeGoOutput2 ==
    /\ Running /\ pc["main"] = "mergeGo2"
    /\ pc' = [pc EXCEPT !["main"] = "mergeGoCloser", !["output2"] = "recv"]
    /\ UNCHANGED <<val, chanVars, wg, re, stdout, panic, mainVars>>

\* go func() { wg.Wait(); close(out) }()
MergeGoCloser ==
    /\ Running /\ pc["main"] = "mergeGoCloser"
    /\ pc' = [pc EXCEPT !["main"] = "printerGo", !["closer"] = "wait"]
    /\ UNCHANGED <<val, chanVars, wg, re, stdout, panic, mainVars>>

\* merge has returned; p.Process() starts the printer's goroutine.
PrinterGo ==
    /\ Running /\ pc["main"] = "printerGo"
    /\ pc' = [pc EXCEPT !["main"] = AfterProcess, !["printer"] = "recv"]
    /\ started' = started + 1
    /\ UNCHANGED <<val, chanVars, wg, re, stdout, panic, input, sendIdx, order, cap, logged>>

\* fmt.Println("Send the data into the network.")
MainAnnounce ==
    /\ Running /\ pc["main"] = "announce"
    /\ Println("main", <<"Send the data into the network.">>,
               IF Len(input) = 0 THEN "close" ELSE "send")
    /\ UNCHANGED <<val, chanVars, wg, re, panic, mainVars>>

\* in <- sentence
MainSend ==
    /\ Running /\ pc["main"] = "send"
    /\ Send("main", "in", input[sendIdx + 1],
            IF sendIdx + 1 = Len(input) THEN "close" ELSE "send", <<>>)
    /\ sendIdx' = IF panic' = "none" THEN sendIdx + 1 ELSE sendIdx
    /\ UNCHANGED <<wg, re, stdout, input, order, started, cap, logged>>

\* Mutant of MainClose: main goes on to wait for done without closing in.
MainCloseForgotten ==
    /\ Running /\ pc["main"] = "close"
    /\ pc' = [pc EXCEPT !["main"] = "wait"]
    /\ UNCHANGED <<val, chanVars, panic>>
    /\ UNCHANGED <<wg, re, stdout, mainVars>>

\* close(in)
MainClose ==
    /\ Running /\ pc["main"] = "close"
    /\ Close("main", "in", "wait")
    /\ UNCHANGED <<wg, re, stdout, mainVars>>

\* Mutant of MainWait: main does not wait for done.
MainWaitSkipped ==
    /\ Running /\ pc["main"] = "wait"
    /\ pc' = [pc EXCEPT !["main"] = "shutdown"]
    /\ UNCHANGED <<val, chanVars, panic>>
    /\ UNCHANGED <<wg, re, stdout, mainVars>>

\* <-done: nothing is ever sent on done, so main continues once it is closed.
MainWait ==
    /\ Running /\ pc["main"] = "wait"
    /\ Recv("main", "done", "shutdown", "shutdown")
    /\ UNCHANGED <<wg, re, stdout, mainVars>>

\* fmt.Println("Network has shut down.") and main returns.
MainShutdown ==
    /\ Running /\ pc["main"] = "shutdown"
    /\ Println("main", <<"Network has shut down.">>, "exit")
    /\ UNCHANGED <<val, chanVars, wg, re, panic, mainVars>>

\* ---------------------------------------------------------------- splitter
\* Mutant of SplitterRecv: an empty In is taken for an exhausted one.
SplitterRecvEmptyIsClosed ==
    /\ Running /\ pc["splitter"] = "recv"
    /\ \/ Recv("splitter", InPort("splitter"), "send1", "fin")
       \/ /\ buf["in"] = <<>>
          /\ pc' = [pc EXCEPT !["splitter"] = "fin"]
          /\ UNCHANGED <<val, chanVars, panic>>
    /\ UNCHANGED <<wg, re, stdout, mainVars>>

\* s, ok := <-t.In
SplitterRecv ==
    /\ Running /\ pc["splitter"] = "recv"
    /\ Recv("splitter", InPort("splitter"), "send1", "fin")
    /\ UNCHANGED <<wg, re, stdout, mainVars>>

\* Mutant of SplitterSend1: the copy for Out1 is not sent.
SplitterSend1Skipped ==
    /\ Running /\ pc["splitter"] = "send1"
    /\ pc' = [pc EXCEPT !["splitter"] = "send2"]
    /\ UNCHANGED <<val, chanVars, panic>>
    /\ UNCHANGED <<wg, re, stdout, mainVars>>

\* Mutant of SplitterSend1: the first copy goes to Out2.
SplitterSend1OnOut2 ==
    /\ Running /\ pc["splitter"] = "send1"
    /\ Send("splitter", "sToLc", Head(val["splitter"]), "send2", val["splitter"])
    /\ UNCHANGED <<wg, re, stdout, mainVars>>

\* t.Out1 <- s
SplitterSend1 ==
    /\ Running /\ pc["splitter"] = "send1"
    /\ Send("splitter", "sToWc", Head(val["splitter"]), "send2", val["splitter"])
    /\ UNCHANGED <<wg, re, stdout, mainVars>>

\* Mutant of SplitterSend2: the second copy goes to Out1 again.
SplitterSend2OnOut1 ==
    /\ Running /\ pc["splitter"] = "send2"
    /\ Send("splitter", "sToWc", Head(val["splitter"]), "recv", <<>>)
    /\ UNCHANGED <<wg, re, stdout, mainVars>>

\* Mutant of SplitterSend2: a non-blocking send (select with default), which
\* drops the copy for Out2 when Out2 cannot take it at once.
SplitterSend2NonBlocking ==
    /\ Running /\ pc["splitter"] = "send2"
    /\ \/ Send("splitter", "sToLc", Head(val["splitter"]), "recv", <<>>)
       \/ /\ ~closed["sToLc"]
          /\ Len(buf["sToLc"]) >= cap["sToLc"]
          /\ ~(cap["sToLc"] = 0 /\ pc[Reader("sToLc")] = "recv")
          /\ pc' = [pc EXCEPT !["splitter"] = "recv"]
          /\ val' = [val EXCEPT !["splitter"] = <<>>]
          /\ UNCHANGED <<chanVars, panic>>
    /\ UNCHANGED <<wg, re, stdout, mainVars>>

\* t.Out2 <- s
SplitterSend2 ==
    /\ Running /\ pc["splitter"] = "send2"
    /\ Send("splitter", "sToLc", Head(val["splitter"]), "recv", <<>>)
    /\ UNCHANGED <<wg, re, stdout, mainVars>>

\* fmt.Println("Splitter has finished.")
SplitterFinished ==
    /\ Running /\ pc["splitter"] = "fin"
    /\ Println("splitter", <<"Splitter has finished.">>, "close1")
    /\ UNCHANGED <<val, chanVars, wg, re, panic, mainVars>>

\* close(t.Out1)
SplitterClose1 ==
    /\ Running /\ pc["splitter"] = "close1"
    /\ Close("splitter", "sToWc", "close2")
    /\ UNCHANGED <<wg, re, stdout, mainVars>>

\* Mutant of SplitterClose2: the splitter returns without closing Out2.
SplitterClose2Forgotten ==
    /\ Running /\ pc["splitter"] = "close2"
    /\ pc' = [pc EXCEPT !["splitter"] = "done"]
    /\ UNCHANGED <<val, chanVars, panic>>
    /\ UNCHANGED <<wg, re, stdout, mainVars>>

\* close(t.Out2) and return
SplitterClose2 ==
    /\ Running /\ pc["splitter"] = "close2"
    /\ Close("splitter", "sToLc", "done")
    /\ UNCHANGED <<wg, re, stdout, mainVars>>

\* ------------------------------------------------------------- wordCounter
\* sentence, ok := <-wc.Sentence
WordCounterRecv ==
    /\ Running /\ pc["wordCounter"] = "recv"
    /\ Recv("wordCounter", InPort("wordCounter"), "send", "fin")
    /\ UNCHANGED <<wg, re, stdout, mainVars>>

\* Mutant of WordCounterSend: the wordCounter stops after its first count.
WordCounterSendThenFinish ==
    /\ Running /\ pc["wordCounter"] = "send"
    /\ Send("wordCounter", "wcToP", WordCount(Head(val["wordCounter"])), "fin", <<>>)
    /\ UNCHANGED <<wg, re, stdout, mainVars>>

\* wc.Count <- &count{"Words", len(strings.Split(sentence, " "))}
WordCounterSend ==
    /\ Running /\ pc["wordCounter"] = "send"
    /\ Send("wordCounter", "wcToP", WordCount(Head(val["wordCounter"])), "recv", <<>>)
    /\ UNCHANGED <<wg, re, stdout, mainVars>>

\* fmt.Println("WordCounter has finished.")
WordCounterFinished ==
    /\ Running /\ pc["wordCounter"] = "fin"
    /\ Println("wordCounter", <<"WordCounter has finished.">>, "close")
    /\ UNCHANGED <<val, chanVars, wg, re, panic, mainVars>>

\* close(wc.Count) and return
WordCounterClose ==
    /\ Running /\ pc["wordCounter"] = "close"
    /\ Close("wordCounter", "wcToP", "done")
    /\ UNCHANGED <<wg, re, stdout, mainVars>>

\* ----------------------------------------------------------- letterCounter
\* lc.Init(): lc.re = regexp.MustCompile("[a-zA-Z]")
LetterCounterInit ==
    /\ Running /\ pc["letterCounter"] = "init"
    /\ re' = "[a-zA-Z]"
    /\ pc' = [pc EXCEPT !["letterCounter"] = "recv"]
    /\ UNCHANGED <<val, chanVars, wg, stdout, panic, mainVars>>

\* sentence, ok := <-lc.Sentence
LetterCounterRecv ==
    /\ Running /\ pc["letterCounter"] = "recv"
    /\ Recv("letterCounter", InPort("letterCounter"), "send", "fin")
    /\ UNCHANGED <<wg, re, stdout, mainVars>>

\* lc.Count <- &count{"Letters", len(lc.re.FindAllString(sentence, -1))}
\* A nil lc.re is a nil pointer dereference.
LetterCounterSend ==
    /\ Running /\ pc["letterCounter"] = "send"
    /\ \/ /\ re = "nil"
          /\ panic' = "nil pointer dereference"
          /\ UNCHANGED <<pc, val, chanVars>>
       \/ /\ re # "nil"
          /\ Send("letterCounter", "lcToP", LetterCount(Head(val["letterCounter"])),
                  "recv", <<>>)
    /\ UNCHANGED <<wg, re, stdout, mainVars>>

\* fmt.Println("LetterCounter has finished.")
LetterCounterFinished ==
    /\ Running /\ pc["letterCounter"] = "fin"
    /\ Println("letterCounter", <<"LetterCounter has finished.">>, "close")
    /\ UNCHANGED <<val, chanVars, wg, re, panic, mainVars>>

\* close(lc.Count) and return
LetterCounterClose ==
    /\ Running /\ pc["letterCounter"] = "close"
    /\ Close("letterCounter", "lcToP", "done")
    /\ UNCHANGED <<wg, re, stdout, mainVars>>

\* ----------------------------------------------------------- printer.merge
Outputs == {"output1", "output2"}

\* for n := range c: the next value of c, or the end of the loop.
OutputRecv(o) ==
    /\ Running /\ pc[o] = "recv"
    /\ Recv(o, InPort(o), "send", "wgDone")
    /\ UNCHANGED <<wg, re, stdout, mainVars>>

\* Mutant of OutputSend: the value read from c is dropped.
OutputSendDropped(o) ==
    /\ Running /\ pc[o] = "send"
    /\ pc' = [pc EXCEPT ![o] = "recv"]
    /\ val' = [val EXCEPT ![o] = <<>>]
    /\ UNCHANGED <<chanVars, panic>>
    /\ UNCHANGED <<wg, re, stdout, mainVars>>

\* Mutant of OutputSend: a merge that prefers Line1, the forwarder of Line2
\* standing back while the forwarder of Line1 has a value to pass on.
OutputSendLine1First(o) ==
    /\ Running /\ pc[o] = "send"
    /\ o = "output2" => pc["output1"] # "send"
    /\ Send(o, "out", Head(val[o]), "recv", <<>>)
    /\ UNCHANGED <<wg, re, stdout, mainVars>>

\* Mutant of OutputSend: the forwarder leaves its loop after the first
\* value and goes on to wg.Done().
OutputSendThenDone(o) ==
    /\ Running /\ pc[o] = "send"
    /\ Send(o, "out", Head(val[o]), "wgDone", <<>>)
    /\ UNCHANGED <<wg, re, stdout, mainVars>>

\* out <- n
OutputSend(o) ==
    /\ Running /\ pc[o] = "send"
    /\ Send(o, "out", Head(val[o]), "recv", <<>>)
    /\ UNCHANGED <<wg, re, stdout, mainVars>>

\* Mutant of OutputDone: the output goroutine returns without wg.Done().
OutputDoneSkipped(o) ==
    /\ Running /\ pc[o] = "wgDone"
    /\ pc' = [pc EXCEPT ![o] = "done"]
    /\ UNCHANGED <<wg, panic>>
    /\ UNCHANGED <<val, chanVars, re, stdout, mainVars>>

\* Mutant of OutputDone: every output goroutine closes out itself when its
\* input is exhausted.
OutputDoneAndClose(o) ==
    /\ Running /\ pc[o] = "wgDone"
    /\ Close(o, "out", "done")
    /\ wg' = IF wg > 0 THEN wg - 1 ELSE wg
    /\ UNCHANGED <<re, stdout, mainVars>>

\* Mutant of OutputDone: wg.Wait() for wg.Done(), so that the forwarder
\* waits for the counter to be zero.
OutputDoneWaits(o) ==
    /\ Running /\ pc[o] = "wgDone"
    /\ wg = 0
    /\ pc' = [pc EXCEPT ![o] = "done"]
    /\ UNCHANGED <<val, chanVars, wg, re, stdout, panic, mainVars>>

\* wg.Done(); a counter below zero panics.
OutputDone(o) ==
    /\ Running /\ pc[o] = "wgDone"
    /\ \/ /\ wg = 0
          /\ panic' = "sync: negative WaitGroup counter"
          /\ UNCHANGED <<pc, wg>>
       \/ /\ wg > 0
          /\ wg' = wg - 1
          /\ pc' = [pc EXCEPT ![o] = "done"]
          /\ UNCHANGED panic
    /\ UNCHANGED <<val, chanVars, re, stdout, mainVars>>

\* Mutant of CloserWait: close(out) without waiting for the outputs.
CloserNoWait ==
    /\ Running /\ pc["closer"] = "wait"
    /\ pc' = [pc EXCEPT !["closer"] = "close"]
    /\ UNCHANGED <<val, chanVars, wg, re, stdout, panic, mainVars>>

\* wg.Wait(): returns when the counter is zero.
CloserWait ==
    /\ Running /\ pc["closer"] = "wait"
    /\ wg = 0
    /\ pc' = [pc EXCEPT !["closer"] = "close"]
    /\ UNCHANGED <<val, chanVars, wg, re, stdout, panic, mainVars>>

\* close(out)
CloserClose ==
    /\ Running /\ pc["closer"] = "close"
    /\ Close("closer", "out", "done")
    /\ UNCHANGED <<wg, re, stdout, mainVars>>

\* ----------------------------------------------------------------- printer
\* c, ok := <-in
PrinterRecv ==
    /\ Running /\ pc["printer"] = "recv"
    /\ Recv("printer", InPort("printer"), "print", "fin")
    /\ UNCHANGED <<wg, re, stdout, mainVars>>

\* Mutant of PrinterPrint: the printer stops after the first count.
PrinterPrintThenStop ==
    /\ Running /\ pc["printer"] = "print"
    /\ stdout' = Written("printer", <<Head(val["printer"]).tag, ":", Head(val["printer"]).count>>)
    /\ pc' = [pc EXCEPT !["printer"] = "fin"]
    /\ val' = [val EXCEPT !["printer"] = <<>>]
    /\ UNCHANGED <<chanVars, wg, re, panic, mainVars>>

\* fmt.Println(c.tag+":", c.count)
PrinterPrint ==
    /\ Running /\ pc["printer"] = "print"
    /\ stdout' = Written("printer", <<Head(val["printer"]).tag, ":", Head(val["printer"]).count>>)
    /\ pc' = [pc EXCEPT !["printer"] = "recv"]
    /\ val' = [val EXCEPT !["printer"] = <<>>]
    /\ UNCHANGED <<chanVars, wg, re, panic, mainVars>>

\* fmt.Println("Printer has finished.")
PrinterFinished ==
    /\ Running /\ pc["printer"] = "fin"
    /\ Println("printer", <<"Printer has finished.">>, "close")
    /\ UNCHANGED <<val, chanVars, wg, re, panic, mainVars>>

\* close(p.Done) and return
PrinterClose ==
    /\ Running /\ pc["printer"] = "close"
    /\ Close("printer", "done", "done")
    /\ UNCHANGED <<wg, re, stdout, mainVars>>

\* ----------------------------------------------------------- specification
Next ==
    \/ MainBegin \/ SplitterProcess \/ WordCounterProcess
    \/ LetterCounterProcess \/ PrinterProcess
    \/ MergeAdd \/ MergeGoOutput1 \/ MergeGoOutput2 \/ MergeGoCloser \/ PrinterGo
    \/ MainAnnounce \/ MainSend \/ MainClose \/ MainWait \/ MainShutdown
    \/ SplitterRecv \/ SplitterSend1 \/ SplitterSend2
    \/ SplitterFinished \/ SplitterClose1 \/ SplitterClose2
    \/ WordCounterRecv \/ WordCounterSend \/ WordCounterFinished \/ WordCounterClose
    \/ LetterCounterInit \/ LetterCounterRecv \/ LetterCounterSend
    \/ LetterCounterFinished \/ LetterCounterClose
    \/ \E o \in Outputs : OutputRecv(o) \/ OutputSend(o) \/ OutputDone(o)
    \/ CloserWait \/ CloserClose
    \/ PrinterRecv \/ PrinterPrint \/ PrinterFinished \/ PrinterClose

Spec == Init /\ [][Next]_vars

TypeOK ==
    /\ panic \in {"none", "send on closed channel", "close of closed channel",
                  "nil pointer dereference", "sync: negative WaitGroup counter"}
    /\ wg \in 0 .. MergeInputs
    /\ \A ch \in Chans : Len(buf[ch]) <= cap[ch]
    /\ \A p \in Procs : Len(val[p]) <= 1

\* ---------------------------------------------------------------- fairness
\* The steps of each goroutine.  The Go scheduler runs every goroutine that
\* can take a step, so each of them is weakly fair.
MainStep ==
    \/ MainBegin \/ SplitterProcess \/ WordCounterProcess
    \/ LetterCounterProcess \/ PrinterProcess
    \/ MergeAdd \/ MergeGoOutput1 \/ MergeGoOutput2 \/ MergeGoCloser \/ PrinterGo
    \/ MainAnnounce \/ MainSend \/ MainClose \/ MainWait \/ MainShutdown

SplitterStep ==
    \/ SplitterRecv \/ SplitterSend1 \/ SplitterSend2
    \/ SplitterFinished \/ SplitterClose1 \/ SplitterClose2

WordCounterStep ==
    WordCounterRecv \/ WordCounterSend \/ WordCounterFinished \/ WordCounterClose

LetterCounterStep ==
    \/ LetterCounterInit \/ LetterCounterRecv \/ LetterCounterSend
    \/ LetterCounterFinished \/ LetterCounterClose

OutputStep(o) == OutputRecv(o) \/ OutputSend(o) \/ OutputDone(o)

CloserStep == CloserWait \/ CloserClose

PrinterStep == PrinterRecv \/ PrinterPrint \/ PrinterFinished \/ PrinterClose

Fairness ==
    /\ WF_vars(MainStep)
    /\ WF_vars(SplitterStep)
    /\ WF_vars(WordCounterStep)
    /\ WF_vars(LetterCounterStep)
    /\ \A o \in Outputs : WF_vars(OutputStep(o))
    /\ WF_vars(CloserStep)
    /\ WF_vars(PrinterStep)

FairSpec == Init /\ [][Next]_vars /\ Fairness

\* ------------------------------------------------------------------ claims
\* C1: under weak fairness of every goroutine, whatever main sends before it
\* closes the source, done is eventually closed and main's receive on it
\* returns.
ShutdownCompletes == <>(closed["done"] /\ pc["main"] \in {"shutdown", "exit"})

\* C1 witness: main has sent sentences, closed the source and its wait on
\* done has returned.
ShutdownCompletesWitness ==
    /\ Len(sent["in"]) >= 1
    /\ closed["in"] /\ closed["done"]
    /\ pc["main"] = "exit"

\* The two inputs of the merge: p.Line1 and p.Line2.
Lines == {"wcToP", "lcToP"}

\* The channel a process is about to send on, "" when it is not at a send.
SendingOn(p) ==
    CASE p = "main" /\ pc[p] = "send"           -> "in"
      [] p = "splitter" /\ pc[p] = "send1"      -> "sToWc"
      [] p = "splitter" /\ pc[p] = "send2"      -> "sToLc"
      [] p = "wordCounter" /\ pc[p] = "send"    -> "wcToP"
      [] p = "letterCounter" /\ pc[p] = "send"  -> "lcToP"
      [] p \in Outputs /\ pc[p] = "send"        -> "out"
      [] OTHER                                  -> ""

IsPrefix(a, b) == Len(a) <= Len(b) /\ a = SubSeq(b, 1, Len(a))

\* The bag of the elements of a sequence.
BagOf(q) ==
    [v \in {q[i] : i \in DOMAIN q} |-> Cardinality({i \in DOMAIN q : q[i] = v})]

IsWords(c) == c.tag = "Words"
IsLetters(c) == c.tag = "Letters"

\* C2: done is closed at most once and only by the printer, nothing is ever
\* sent on it, it is closed only after both printer inputs and the merge
\* output are closed and drained with every value delivered, and main gets
\* past its wait on done only through that close.
DoneClosedOnceBySink ==
    /\ sent["done"] = <<>> /\ rcvd["done"] = <<>> /\ buf["done"] = <<>>
    /\ \A p \in Procs : SendingOn(p) # "done"
    /\ Len(closes["done"]) <= 1
    /\ \A i \in DOMAIN closes["done"] : closes["done"][i] = "printer"
    /\ closed["done"] =>
          /\ \A ch \in Lines \cup {"out"} : closed[ch] /\ buf[ch] = <<>>
          /\ Len(rcvd["out"]) = Len(sent["wcToP"]) + Len(sent["lcToP"])
          /\ pc["printer"] = "done"
    /\ pc["main"] \in {"shutdown", "exit"} => closed["done"]

\* C2 witness: the printer has closed done after printing counts and main
\* has got past its wait.
DoneClosedOnceBySinkWitness ==
    /\ closes["done"] = <<"printer">>
    /\ Len(rcvd["out"]) >= 2
    /\ pc["main"] = "shutdown"

\* C3: no process is ever at a send on a channel that is closed, and no send
\* on a closed channel has happened.
NoSendOnClosedChannel ==
    /\ panic # "send on closed channel"
    /\ \A p \in Procs : SendingOn(p) # "" => ~closed[SendingOn(p)]

\* C3 witness: both output goroutines are at their send on the shared merge
\* output while the source is already closed.
NoSendOnClosedChannelWitness ==
    /\ pc["output1"] = "send" /\ pc["output2"] = "send"
    /\ closed["in"]

\* C4: every channel is closed at most once; the merge output is closed only
\* by the goroutine that waits on the WaitGroup.
NoDoubleClose ==
    /\ panic # "close of closed channel"
    /\ \A ch \in Chans : Len(closes[ch]) <= 1
    /\ \A i \in DOMAIN closes["out"] : closes["out"][i] = "closer"

\* C4 witness: all seven channels have been closed.
NoDoubleCloseWitness ==
    \A ch \in Chans : closed[ch] /\ Len(closes[ch]) = 1

\* C5: when the merge output is closed, both merge inputs are closed and
\* drained, both output goroutines have returned holding nothing, and every
\* value they received was sent on the output.  (So while an input is open
\* the output is open.)
MergeClosesAfterInputs ==
    closed["out"] =>
        /\ \A l \in Lines : closed[l] /\ buf[l] = <<>>
        /\ \A o \in Outputs : pc[o] = "done" /\ val[o] = <<>>
        /\ Len(sent["out"]) = Len(rcvd["wcToP"]) + Len(rcvd["lcToP"])
        /\ Len(rcvd["wcToP"]) = Len(sent["wcToP"])
        /\ Len(rcvd["lcToP"]) = Len(sent["lcToP"])

\* C5 witness: the merge output is closed after values went through it.
MergeClosesAfterInputsWitness ==
    /\ closed["out"]
    /\ Len(sent["out"]) >= 2

\* C6: once both merge inputs are closed, the merge output is eventually
\* closed (the printer and the merge goroutines being weakly fair).
MergeEventuallyCloses ==
    (closed["wcToP"] /\ closed["lcToP"]) ~> closed["out"]

\* C6 witness: both merge inputs are closed while the output is still open
\* and an output goroutine still holds a value to deliver.
MergeEventuallyClosesWitness ==
    /\ closed["wcToP"] /\ closed["lcToP"] /\ ~closed["out"]
    /\ \E o \in Outputs : pc[o] = "send"

\* C7: the values received from the merge output are, as a bag, among the
\* values sent on Line1 and Line2; once the output is closed the two bags
\* are equal.
MergeLosesNothing ==
    /\ BagOf(rcvd["out"]) \sqsubseteq (BagOf(sent["wcToP"]) (+) BagOf(sent["lcToP"]))
    /\ closed["out"] =>
          BagOf(rcvd["out"]) = BagOf(sent["wcToP"]) (+) BagOf(sent["lcToP"])

\* C7 witness: the merge output is closed and the printer received two
\* values from each input, two of them equal.
MergeLosesNothingWitness ==
    /\ closed["out"]
    /\ Len(sent["wcToP"]) >= 2 /\ Len(sent["lcToP"]) >= 2
    /\ \E i, j \in DOMAIN rcvd["out"] : i # j /\ rcvd["out"][i] = rcvd["out"][j]

\* C8: the values of each merge input arrive at the merge output in the
\* order in which they were sent on that input (Line1 carries the Words
\* counts, Line2 the Letters counts).
MergeKeepsInputOrder ==
    /\ \A i \in DOMAIN sent["wcToP"] : IsWords(sent["wcToP"][i])
    /\ \A i \in DOMAIN sent["lcToP"] : IsLetters(sent["lcToP"][i])
    /\ IsPrefix(SelectSeq(rcvd["out"], IsWords), sent["wcToP"])
    /\ IsPrefix(SelectSeq(rcvd["out"], IsLetters), sent["lcToP"])

\* C8 witness: two different Letters counts were received from the merge
\* output with a Words count between them.
MergeKeepsInputOrderWitness ==
    \E i, j, k \in DOMAIN rcvd["out"] :
        /\ i < j /\ j < k
        /\ IsLetters(rcvd["out"][i]) /\ IsWords(rcvd["out"][j])
        /\ IsLetters(rcvd["out"][k])
        /\ rcvd["out"][i] # rcvd["out"][k]

\* C9: what the splitter has sent on Out1 and on Out2 is each a prefix of
\* what it has received from In, and both equal it once the splitter has
\* seen In exhausted.
FanOutFidelity ==
    /\ IsPrefix(sent["sToWc"], rcvd["in"])
    /\ IsPrefix(sent["sToLc"], rcvd["in"])
    /\ pc["splitter"] \in {"fin", "close1", "close2", "done"} =>
          sent["sToWc"] = rcvd["in"] /\ sent["sToLc"] = rcvd["in"]

\* C9 witness: the splitter has finished after receiving two sentences.
FanOutFidelityWitness ==
    /\ pc["splitter"] = "done"
    /\ Len(rcvd["in"]) >= 2

\* The output channels of each node.
NodeOuts(n) ==
    CASE n = "splitter"      -> {"sToWc", "sToLc"}
      [] n = "wordCounter"   -> {"wcToP"}
      [] n = "letterCounter" -> {"lcToP"}
      [] n = "printer"       -> {"done"}

\* C10: a node's output is closed only when its input is closed and drained,
\* and a node is on its way to closing only then.
ForwardOnlyCascade ==
    \A n \in Nodes :
        /\ (\E ch \in NodeOuts(n) : closed[ch]) =>
              closed[InPort(n)] /\ buf[InPort(n)] = <<>>
        /\ pc[n] \in {"fin", "close", "close1", "close2", "done"} =>
              closed[InPort(n)] /\ buf[InPort(n)] = <<>> /\ val[n] = <<>>

\* C10 witness: the cascade is under way: the Words branch is closed down
\* to the printer's input while the Letters branch still carries a value.
ForwardOnlyCascadeWitness ==
    /\ closed["sToWc"] /\ closed["wcToP"]
    /\ ~closed["lcToP"] /\ ~closed["out"]
    /\ buf["sToLc"] # <<>>

\* C11: while the source is open no other channel is closed, so main gets
\* past its wait on done only after it has closed the source.
OnlySourceCloseStartsShutdown ==
    /\ ~closed["in"] => \A ch \in Chans : ~closed[ch] /\ closes[ch] = <<>>
    /\ ~closed["in"] => pc["main"] \notin {"wait", "shutdown", "exit"}
    /\ closes["in"] \in {<<>>, <<"main">>}

\* C11 witness: the source is still open while counts of both branches have
\* already reached the printer.
OnlySourceCloseStartsShutdownWitness ==
    /\ ~closed["in"]
    /\ \E i, j \in DOMAIN rcvd["out"] :
          IsWords(rcvd["out"][i]) /\ IsLetters(rcvd["out"][j])

\* ---------------------------------------------------- the run of main
\* main as written: capacity 10, the three reference sentences, the nodes
\* started in main's order.
ScenarioInit == InitWith(ChanCap, Reference, MainOrder, MainAndPrinter)

ScenarioSpec == ScenarioInit /\ [][Next]_vars

\* A count line is what the printer writes: the tag, the colon, the count.
IsCountLine(line) == Len(line) = 3

\* The counts printed so far with the given tag, in the order printed.
PrintedCounts(tag) ==
    LET lines == SelectSeq(stdout, LAMBDA l : IsCountLine(l) /\ l[1] = tag)
    IN  [i \in 1 .. Len(lines) |-> lines[i][3]]

\* C12: with the three reference sentences the Words lines are 13, 17, 8 and
\* the Letters lines 45, 70, 36, each in that order; all six are printed
\* before main gets past its wait, and "Network has shut down." is the last
\* line, after the six.
ReferenceScenario ==
    /\ IsPrefix(PrintedCounts("Words"), <<13, 17, 8>>)
    /\ IsPrefix(PrintedCounts("Letters"), <<45, 70, 36>>)
    /\ Len(SelectSeq(stdout, IsCountLine)) =
          Len(PrintedCounts("Words")) + Len(PrintedCounts("Letters"))
    /\ pc["main"] \in {"shutdown", "exit"} =>
          /\ PrintedCounts("Words") = <<13, 17, 8>>
          /\ PrintedCounts("Letters") = <<45, 70, 36>>
    /\ \A i \in DOMAIN stdout :
          stdout[i] = <<"Network has shut down.">> =>
              /\ i = Len(stdout)
              /\ Len(SelectSeq(stdout, IsCountLine)) = 6
    /\ pc["main"] = "exit" => stdout[Len(stdout)] = <<"Network has shut down.">>

\* C12 witness: main has returned after a run in which a Letters line was
\* printed before the first Words line.
ReferenceScenarioWitness ==
    /\ pc["main"] = "exit"
    /\ \E i \in DOMAIN stdout :
          /\ stdout[i] = <<"Letters", ":", 45>>
          /\ \A j \in 1 .. i : stdout[j] # <<"Words", ":", 13>>

\* The counts of the sentences main sends, in the order it sends them.
WordsOfInput == [i \in 1 .. Len(input) |-> WordCount(input[i]).count]
LettersOfInput == [i \in 1 .. Len(input) |-> LetterCount(input[i]).count]

\* C13: the counts printed with each tag are always a prefix of the counts
\* of the sentences sent, in send order; when done is closed they are all
\* there, 2N count lines in all.
EndToEndLossless ==
    /\ IsPrefix(PrintedCounts("Words"), WordsOfInput)
    /\ IsPrefix(PrintedCounts("Letters"), LettersOfInput)
    /\ closed["done"] =>
          /\ PrintedCounts("Words") = WordsOfInput
          /\ PrintedCounts("Letters") = LettersOfInput
          /\ Len(SelectSeq(stdout, IsCountLine)) = 2 * Len(input)

\* C13 witness: done is closed after two sentences whose counts were
\* printed with the two tags interleaved.
EndToEndLosslessWitness ==
    /\ closed["done"]
    /\ Len(input) >= 2
    /\ \E i, j, k \in DOMAIN stdout :
          /\ i < j /\ j < k
          /\ IsCountLine(stdout[i]) /\ IsCountLine(stdout[j]) /\ IsCountLine(stdout[k])
          /\ stdout[i][1] = "Words" /\ stdout[j][1] = "Letters"
          /\ stdout[k][1] = "Words"

\* C14: once main is past its wait on done, every data channel and the merge
\* output are closed and empty with everything sent also received, no
\* goroutine holds a value, and every goroutine has taken its last step.
DrainedOnCompletion ==
    pc["main"] \in {"shutdown", "exit"} =>
        /\ \A ch \in DataChans \cup {"out"} :
              closed[ch] /\ buf[ch] = <<>> /\ rcvd[ch] = sent[ch]
        /\ \A p \in Procs \ {"main"} : val[p] = <<>> /\ pc[p] = "done"
        /\ wg = 0

\* C14 witness: main has returned after two sentences went through both
\* branches.
DrainedOnCompletionWitness ==
    /\ pc["main"] = "exit"
    /\ Len(rcvd["wcToP"]) >= 2 /\ Len(rcvd["lcToP"]) >= 2

\* ------------------------------------------------- Process() called anywhere
\* The orders in which the four nodes can be started (the interface variant
\* starts them in the iteration order of a map).
StartOrders ==
    {o \in [1 .. Cardinality(Nodes) -> Nodes] : \A n \in Nodes : \E i \in DOMAIN o : o[i] = n}

\* A caller that starts the nodes late: before the first Process() call
\* the source already holds the sentences of early (as many as it has room
\* for) and may already be closed.  Afterwards the caller goes on as main.
\* Its console is not observed.
LateStartInit(c, in, ord, early, cl) ==
    /\ pc = [p \in Procs |-> IF p = "main" THEN "begin" ELSE "idle"]
    /\ val = [p \in Procs |-> <<>>]
    /\ buf = [ch \in Chans |-> IF ch = "in" THEN early ELSE <<>>]
    /\ closed = [ch \in Chans |-> ch = "in" /\ cl]
    /\ cap = [ch \in Chans |-> IF ch \in DataChans THEN c ELSE 0]
    /\ sent = [ch \in Chans |-> IF ch = "in" THEN early ELSE <<>>]
    /\ rcvd = [ch \in Chans |-> <<>>]
    /\ closes = [ch \in Chans |-> IF ch = "in" /\ cl THEN <<"main">> ELSE <<>>]
    /\ wg = 0
    /\ re = "nil"
    /\ stdout = <<>>
    /\ logged = {}
    /\ panic = "none"
    /\ input = in
    /\ sendIdx = 0
    /\ order = ord
    /\ started = 0

ProcessInit ==
    \E c \in Caps, ord \in StartOrders, cl \in BOOLEAN,
       early \in {<<>>, <<Corpus[2]>>} :
        /\ Len(early) <= c
        /\ LateStartInit(c, <<Corpus[1]>>, ord, early, cl)

ProcessSpec == ProcessInit /\ [][Next]_vars

\* The steps main takes inside the Process() calls, printer.merge included.
ProcessCall ==
    \/ SplitterProcess \/ WordCounterProcess \/ LetterCounterProcess
    \/ PrinterProcess \/ MergeAdd \/ MergeGoOutput1 \/ MergeGoOutput2
    \/ MergeGoCloser \/ PrinterGo

\* main is inside a Process() call or about to make one.
InProcessCall ==
    pc["main"] \in {"start", "mergeAdd", "mergeGo1", "mergeGo2",
                    "mergeGoCloser", "printerGo"}

\* C15: a caller that is in a Process() call can always take its next step,
\* whatever the channels hold and whichever nodes are running, and the steps
\* of the call send, receive and close nothing.
ProcessReturnsAtOnce ==
    /\ [](Running /\ InProcessCall => ENABLED ProcessCall)
    /\ [][ProcessCall => UNCHANGED <<buf, closed, sent, rcvd, closes>>]_vars

\* C15 witness: main is about to call Process() on a node that is not yet
\* running while one channel is full and another is closed.
ProcessReturnsAtOnceWitness ==
    /\ pc["main"] = "start"
    /\ pc["wordCounter"] = "idle"
    /\ \E ch \in DataChans : cap[ch] > 0 /\ Len(buf[ch]) = cap[ch]
    /\ \E ch \in DataChans : closed[ch] /\ ch # "in"

\* The driver starts the nodes in any order before it sends, with the
\* channels of main.
OrderInit ==
    \E ord \in StartOrders, n \in 0 .. MaxN :
        InitWith(ChanCap, SubSeq(Corpus, 1, n), ord, MainAndPrinter)

OrderSpec == OrderInit /\ [][Next]_vars

\* How far a goroutine has come, by the statement it is at: every statement
\* of its loop counts the same, for the loop returns to them.
RankOf ==
    [idle |-> 0, init |-> 1,
     recv |-> 2, send |-> 2, send1 |-> 2, send2 |-> 2, print |-> 2, wait |-> 2,
     fin |-> 3, wgDone |-> 3, close |-> 4, close1 |-> 4, close2 |-> 5,
     done |-> 6]
Rank(p) == RankOf[pc[p]]

\* The statements of main in program order; the Process() calls repeat, so
\* each node started counts for a whole pass, and each sentence sent for one.
MainRankOf ==
    [begin |-> 1, start |-> 2, mergeAdd |-> 3, mergeGo1 |-> 4, mergeGo2 |-> 5,
     mergeGoCloser |-> 6, printerGo |-> 7, announce |-> 8, send |-> 9,
     close |-> 10, wait |-> 11, shutdown |-> 12, exit |-> 13]
MainRank == MainRankOf.exit * started + sendIdx + MainRankOf[pc["main"]]

\* The work a goroutine has done: statements passed; a value it still
\* holds is work not yet done.
Worked(p) == Rank(p) - Len(val[p])

\* The traffic a channel has seen; a receive counts twice.
Passed(ch) == 2 * Len(rcvd[ch]) + Len(sent[ch]) + Len(closes[ch])

\* A measure of the work done so far by main, the goroutines and the
\* channels, the compiled expression and a panic included.
Progress ==
    MainRank - Len(val["main"])
      + Worked("splitter") + Worked("wordCounter") + Worked("letterCounter")
      + Worked("output1") + Worked("output2") + Worked("closer") + Worked("printer")
      + Passed("in") + Passed("sToWc") + Passed("sToLc") + Passed("wcToP")
      + Passed("lcToP") + Passed("out") + Passed("done")
      + (IF re = "nil" THEN 0 ELSE 1)
      + (IF panic = "none" THEN 0 ELSE 1)

CapAssignments ==
    [DataChans -> {0, SmallCap}] \cup {[ch \in DataChans |-> ChanCap]}

\* main with the data channels made with the capacities caps.
CapacityInitWith(caps, in) ==
    /\ pc = [p \in Procs |-> IF p = "main" THEN "begin" ELSE "idle"]
    /\ val = [p \in Procs |-> <<>>]
    /\ buf = [ch \in Chans |-> <<>>]
    /\ closed = [ch \in Chans |-> FALSE]
    /\ cap = [ch \in Chans |-> IF ch \in DataChans THEN caps[ch] ELSE 0]
    /\ sent = [ch \in Chans |-> <<>>]
    /\ rcvd = [ch \in Chans |-> <<>>]
    /\ closes = [ch \in Chans |-> <<>>]
    /\ wg = 0
    /\ re = "nil"
    /\ stdout = <<>>
    /\ logged = MainAndPrinter
    /\ panic = "none"
    /\ input = in
    /\ sendIdx = 0
    /\ order = MainOrder
    /\ started = 0

CapacityInit ==
    \E caps \in CapAssignments, n \in 0 .. MaxN :
        CapacityInitWith(caps, SubSeq(Corpus, 1, n))

CapacitySpec == CapacityInit /\ [][Next]_vars

\* C17: whatever the capacities of the five data channels, the network never
\* deadlocks and never panics, and done is closed once the source is: every
\* step is progress, so no run goes on for ever, and until main has got past
\* its wait for done some goroutine can take a step, so no run stops before.
\* When done is closed the counts printed with each tag are the counts of
\* the sentences sent, in send order: they do not depend on the capacities,
\* so they are those printed with capacity 10.
CapacityIrrelevant ==
    /\ [][Progress' > Progress]_vars
    /\ [](panic = "none")
    /\ [](pc["main"] \notin {"shutdown", "exit"} => ENABLED Next)
    /\ [](pc["main"] \in {"shutdown", "exit"} => closed["in"] /\ closed["done"])
    /\ [](closed["done"] =>
            /\ PrintedCounts("Words") = WordsOfInput
            /\ PrintedCounts("Letters") = LettersOfInput)

\* C17 witness: the network has shut down with an unbuffered channel next
\* to a buffered one, after more sentences than any channel has room for.
CapacityIrrelevantWitness ==
    /\ cap["sToWc"] = 0 /\ cap["sToLc"] > 0 /\ cap["in"] = 0
    /\ \A ch \in DataChans : Len(sent[ch]) > cap[ch]
    /\ closed["done"] /\ pc["main"] = "exit"

\* The count lines printed so far, in the order printed.
CountLines == SelectSeq(stdout, IsCountLine)

\* C18: in the three-sentence scenario the merge leaves the order of a Words
\* count and a Letters count to the scheduler: whenever the printer is ready
\* to receive and a forwarder holds a count, that forwarder can hand it over
\* next, whatever the other forwarder holds; and a count held by a forwarder
\* is the next of its tag to be printed.  So when both hold a count either
\* can be printed first.
MergeOrderFree ==
    \A o \in Outputs :
        Running /\ pc[o] = "send" =>
            /\ pc["printer"] = "recv" => ENABLED OutputSend(o)
            /\ LET tag == Head(val[o]).tag
                   all == IF tag = "Words" THEN WordsOfInput ELSE LettersOfInput
               IN  Head(val[o]).count = all[Len(PrintedCounts(tag)) + 1]
                        \/ pc["printer"] = "print"

\* C18 witness: a run of the scenario in which every Letters count was
\* printed before every Words count.
MergeOrderFreeWitness ==
    /\ pc["main"] = "exit"
    /\ CountLines = <<<<"Letters", ":", 45>>, <<"Letters", ":", 70>>,
                      <<"Letters", ":", 36>>, <<"Words", ":", 13>>,
                      <<"Words", ":", 17>>, <<"Words", ":", 8>>>>

\* The other order: every Words count printed before every Letters count.
WordsFirstRun ==
    /\ pc["main"] = "exit"
    /\ CountLines = <<<<"Words", ":", 13>>, <<"Words", ":", 17>>,
                      <<"Words", ":", 8>>, <<"Letters", ":", 45>>,
                      <<"Letters", ":", 70>>, <<"Letters", ":", 36>>>>

\* main as it is, with the console of every goroutine observed.
SampleInit == InitWith(ChanCap, Reference, MainOrder, Procs)

SampleSpec == SampleInit /\ [][Next]_vars

\* The output shown in the documentation of the program.
SampleRun ==
    <<<<"Start the nodes.">>,
      <<"Splitter starts.">>,
      <<"WordCounter starts.">>,
      <<"LetterCounter starts.">>,
      <<"Printer starts.">>,
      <<"Send the data into the network.">>,
      <<"Splitter has finished.">>,
      <<"WordCounter has finished.">>,
      <<"Words", ":", 13>>,
      <<"Words", ":", 17>>,
      <<"Words", ":", 8>>,
      <<"Letters", ":", 45>>,
      <<"LetterCounter has finished.">>,
      <<"Letters", ":", 70>>,
      <<"Letters", ":", 36>>,
      <<"Printer has finished.">>,
      <<"Network has shut down.">>>>

\* The lines main prints before it sends, and the lines that end a run.
SampleHead == SubSeq(SampleRun, 1, 6)
SampleTail == SubSeq(SampleRun, Len(SampleRun) - 1, Len(SampleRun))

\* C19: every run of main prints a prefix of a rearrangement of the
\* documented sample run, and a complete run prints all of its lines, each
\* once: the six lines up to "Send the data into the network." first and in
\* that order, "Printer has finished." and "Network has shut down." last.
\* The documented order of the lines in between is one the scheduler can
\* produce: the witness.
SampleRunLines ==
    /\ \A i \in DOMAIN stdout :
          Cardinality({j \in DOMAIN stdout : stdout[j] = stdout[i]})
              = Cardinality({j \in DOMAIN SampleRun : SampleRun[j] = stdout[i]})
    /\ IsPrefix(stdout, SampleHead) \/ IsPrefix(SampleHead, stdout)
    /\ pc["main"] = "exit" =>
          /\ Len(stdout) = Len(SampleRun)
          /\ SubSeq(stdout, Len(stdout) - 1, Len(stdout)) = SampleTail

\* C19 witness: main has returned and the console shows the documented
\* sample run, line for line.
SampleRunLinesWitness == pc["main"] = "exit" /\ stdout = SampleRun

\* ------------------------------------------------- the network without merge
\* The wiring of the earlier version: both counters send to the single input
\* of the printer, which reads it directly.  The model uses the channel the
\* printer reads, out, as that shared line; main makes it like the others.
SharedLine == InPort("printer")

RewiredInitWith(c, in) ==
    /\ pc = [p \in Procs |-> IF p = "main" THEN "begin" ELSE "idle"]
    /\ val = [p \in Procs |-> <<>>]
    /\ buf = [ch \in Chans |-> <<>>]
    /\ closed = [ch \in Chans |-> FALSE]
    /\ cap = [ch \in Chans |-> IF ch = "done" THEN 0 ELSE c]
    /\ sent = [ch \in Chans |-> <<>>]
    /\ rcvd = [ch \in Chans |-> <<>>]
    /\ closes = [ch \in Chans |-> <<>>]
    /\ wg = 0
    /\ re = "nil"
    /\ stdout = <<>>
    /\ logged = MainAndPrinter
    /\ panic = "none"
    /\ input = in
    /\ sendIdx = 0
    /\ order = MainOrder
    /\ started = 0

RewiredInit ==
    \E c \in Caps, n \in 0 .. MaxN : RewiredInitWith(c, SubSeq(Corpus, 1, n))

\* p.Process() of a printer with one input: prints and starts the goroutine.
RewiredPrinterProcess ==
    /\ Running /\ pc["main"] = "start" /\ order[started + 1] = "printer"
    /\ stdout' = Written("main", <<"Printer starts.">>)
    /\ pc' = [pc EXCEPT !["printer"] = "recv", !["main"] = AfterProcess]
    /\ started' = started + 1
    /\ UNCHANGED <<val, chanVars, wg, re, panic, input, sendIdx, order, cap, logged>>

\* wc.Count <- &count{...} with wc.Count the shared line
RewiredWordCounterSend ==
    /\ Running /\ pc["wordCounter"] = "send"
    /\ Send("wordCounter", SharedLine, WordCount(Head(val["wordCounter"])), "recv", <<>>)
    /\ UNCHANGED <<wg, re, stdout, mainVars>>

\* close(wc.Count) and return
RewiredWordCounterClose ==
    /\ Running /\ pc["wordCounter"] = "close"
    /\ Close("wordCounter", SharedLine, "done")
    /\ UNCHANGED <<wg, re, stdout, mainVars>>

\* lc.Count <- &count{...} with lc.Count the shared line
RewiredLetterCounterSend ==
    /\ Running /\ pc["letterCounter"] = "send"
    /\ \/ /\ re = "nil"
          /\ panic' = "nil pointer dereference"
          /\ UNCHANGED <<pc, val, chanVars>>
       \/ /\ re # "nil"
          /\ Send("letterCounter", SharedLine, LetterCount(Head(val["letterCounter"])),
                  "recv", <<>>)
    /\ UNCHANGED <<wg, re, stdout, mainVars>>

\* Mutant of RewiredLetterCounterClose: the letter counter returns without
\* closing its output.
RewiredLetterCounterCloseForgotten ==
    /\ Running /\ pc["letterCounter"] = "close"
    /\ pc' = [pc EXCEPT !["letterCounter"] = "done"]
    /\ UNCHANGED <<val, chanVars, panic>>
    /\ UNCHANGED <<wg, re, stdout, mainVars>>

\* close(lc.Count) and return
RewiredLetterCounterClose ==
    /\ Running /\ pc["letterCounter"] = "close"
    /\ Close("letterCounter", SharedLine, "done")
    /\ UNCHANGED <<wg, re, stdout, mainVars>>

RewiredNext ==
    \/ MainBegin \/ SplitterProcess \/ WordCounterProcess
    \/ LetterCounterProcess \/ RewiredPrinterProcess
    \/ MainAnnounce \/ MainSend \/ MainClose \/ MainWait \/ MainShutdown
    \/ SplitterRecv \/ SplitterSend1 \/ SplitterSend2
    \/ SplitterFinished \/ SplitterClose1 \/ SplitterClose2
    \/ WordCounterRecv \/ RewiredWordCounterSend
    \/ WordCounterFinished \/ RewiredWordCounterClose
    \/ LetterCounterInit \/ LetterCounterRecv \/ RewiredLetterCounterSend
    \/ LetterCounterFinished \/ RewiredLetterCounterClose
    \/ PrinterRecv \/ PrinterPrint \/ PrinterFinished \/ PrinterClose

RewiredSpec == RewiredInit /\ [][RewiredNext]_vars

Counters == {"wordCounter", "letterCounter"}

\* C20: with both counters writing to and closing one line, the two
\* counters never both get to the end of Process(): the line is closed by
\* whichever counter closes first, and from then on the other counter's
\* next send or close on it is the panic (unless the program ends first).
\* The only panics are a send on the closed line and a second close of it.
RewiredCountersCollide ==
    /\ ~(pc["wordCounter"] = "done" /\ pc["letterCounter"] = "done")
    /\ Len(closes[SharedLine]) <= 2
    /\ \A i \in DOMAIN closes[SharedLine] : closes[SharedLine][i] \in Counters
    /\ panic # "none" =>
          /\ panic \in {"send on closed channel", "close of closed channel"}
          /\ closed[SharedLine]
          /\ panic = "close of closed channel" <=> Len(closes[SharedLine]) = 2

\* C20 witness: a counter has sent on the line the other counter had closed.
RewiredCountersCollideWitness ==
    /\ panic = "send on closed channel"
    /\ \E c \in Counters :
          /\ closes[SharedLine] = <<c>>
          /\ \E d \in Counters \ {c} : pc[d] = "send"

\* The other collision: a counter has closed the line the other counter had
\* closed.
DoubleCloseReached ==
    /\ panic = "close of closed channel"
    /\ closes[SharedLine] \in {<<"wordCounter", "letterCounter">>,
                                <<"letterCounter", "wordCounter">>}

\* C21: the splitter sends each value on Out1, then on Out2, and only then
\* receives again: Out1 is never behind Out2 and at most one value ahead;
\* when the splitter is at its receive it holds nothing and both outputs
\* have had every value received from In; it holds a value exactly while
\* one of the two sends is outstanding.  Out2 is closed only after Out1,
\* and both only by the splitter, after In is closed and drained.
SplitterWriteOrder ==
    LET in == Len(rcvd["in"])
        out1 == Len(sent["sToWc"])
        out2 == Len(sent["sToLc"])
    IN  /\ out1 - out2 \in {0, 1}
        /\ sent["sToLc"] = SubSeq(sent["sToWc"], 1, out2)
        /\ pc["splitter"] = "recv" =>
              val["splitter"] = <<>> /\ out1 = in /\ out2 = in
        /\ pc["splitter"] = "send1" =>
              val["splitter"] = <<rcvd["in"][in]>> /\ out1 = in - 1 /\ out2 = in - 1
        /\ pc["splitter"] = "send2" =>
              val["splitter"] = <<rcvd["in"][in]>> /\ out1 = in /\ out2 = in - 1
        /\ closed["sToLc"] => closed["sToWc"]
        /\ closed["sToWc"] =>
              /\ closed["in"] /\ buf["in"] = <<>> /\ out1 = in /\ out2 = in
              /\ closes["sToWc"] = <<"splitter">>
        /\ closes["sToLc"] \in {<<>>, <<"splitter">>}

\* C21 witness: the splitter has sent its second value on Out1 and not yet
\* on Out2.
SplitterWriteOrderWitness ==
    /\ pc["splitter"] = "send2"
    /\ Len(sent["sToWc"]) = 2 /\ Len(sent["sToLc"]) = 1

\* Process p can take its next step.
CanStep(p) ==
    CASE p = "main"          -> ENABLED MainStep
      [] p = "splitter"      -> ENABLED SplitterStep
      [] p = "wordCounter"   -> ENABLED WordCounterStep
      [] p = "letterCounter" -> ENABLED LetterCounterStep
      [] p \in Outputs       -> ENABLED OutputStep(p)
      [] p = "closer"        -> ENABLED CloserStep
      [] p = "printer"       -> ENABLED PrinterStep

\* A started goroutine that has not returned and cannot take a step.
Suspended(p) ==
    Running /\ pc[p] \notin {"idle", "done", "exit"} /\ ~CanStep(p)

\* p is at a send on an open channel that cannot take the value: its buffer
\* is full, or it has none and the receiver is not at its receive.
BlockedOnSend(p) ==
    LET ch == SendingOn(p)
    IN  /\ ch # ""
        /\ ~closed[ch]
        /\ Len(buf[ch]) >= cap[ch]
        /\ cap[ch] = 0 => pc[Reader(ch)] # "recv"

\* p is at a receive from an empty, open channel (main: <-done).
BlockedOnRecv(p) ==
    LET at == IF p = "main" THEN pc[p] = "wait"
              ELSE p # "closer" /\ pc[p] = "recv"
        ch == IF p = "main" THEN "done" ELSE InPort(p)
    IN  at /\ buf[ch] = <<>> /\ ~closed[ch]

\* The coordinator of merge is in wg.Wait() with the counter above zero.
BlockedOnWaitGroup(p) == p = "closer" /\ pc[p] = "wait" /\ wg > 0

\* C22 as claimed: a suspended process is at a send to a full channel or at
\* a receive from an empty, open channel.
OnlyChannelsBlock ==
    \A p \in Procs : Suspended(p) => BlockedOnSend(p) \/ BlockedOnRecv(p)

\* C22 as amended: a suspended process is at a send to a full channel, at a
\* receive from an empty, open channel, or it is the coordinator of merge
\* in wg.Wait() while a forwarder has not yet called wg.Done(); and a
\* process in one of these three positions is suspended.
OnlyChannelsAndBarrierBlock ==
    \A p \in Procs :
        /\ Suspended(p) =>
              BlockedOnSend(p) \/ BlockedOnRecv(p) \/ BlockedOnWaitGroup(p)
        /\ Running /\ (BlockedOnSend(p) \/ BlockedOnRecv(p) \/ BlockedOnWaitGroup(p))
              => Suspended(p)

\* C22 witness: the coordinator waits for the forwarders while one goroutine
\* is suspended at a send to a full channel and another at a receive.
OnlyChannelsAndBarrierBlockWitness ==
    /\ Suspended("closer") /\ BlockedOnWaitGroup("closer")
    /\ \E p \in Procs : Suspended(p) /\ BlockedOnSend(p) /\ cap[SendingOn(p)] > 0
    /\ \E p \in Procs : Suspended(p) /\ BlockedOnRecv(p)

\* The goroutines of merge have been started, or some of them.
MergeStarted == \E p \in Outputs \cup {"closer"} : pc[p] # "idle"

\* C23: the counter is 2 before a forwarder or the coordinator is started
\* and from then on it is 2 less the forwarders that have returned, so never
\* negative; a forwarder is at or past wg.Done() only when its input is
\* closed and drained and everything it received has been sent on the
\* output; the counter changes only by wg.Add(2), once, and by a forwarder's
\* wg.Done(), one at a time; the coordinator gets past wg.Wait(), and the
\* output is closed, only with the counter at 0.
MergeBarrier ==
    /\ [](/\ wg \in 0 .. MergeInputs
          /\ panic # "sync: negative WaitGroup counter"
          /\ MergeStarted =>
                wg = MergeInputs - Cardinality({o \in Outputs : pc[o] = "done"})
          /\ \A o \in Outputs : pc[o] \in {"wgDone", "done"} =>
                /\ closed[InPort(o)] /\ buf[InPort(o)] = <<>> /\ val[o] = <<>>
                /\ rcvd[InPort(o)] = sent[InPort(o)]
                /\ rcvd[InPort(o)] =
                      SelectSeq(sent["out"],
                                LAMBDA c : c.tag = (IF o = "output1" THEN "Words"
                                                     ELSE "Letters"))
          /\ pc["closer"] \in {"close", "done"} \/ closed["out"] => wg = 0)
    /\ [][/\ wg' > wg => wg = 0 /\ wg' = MergeInputs /\ ~MergeStarted
          /\ wg' < wg =>
                /\ wg' = wg - 1
                /\ \E o \in Outputs :
                      /\ pc[o] = "wgDone" /\ pc'[o] = "done"
                      /\ \A q \in Outputs \ {o} : pc'[q] = pc[q]
          /\ \A o \in Outputs : pc[o] = "wgDone" /\ pc'[o] # pc[o] => wg' = wg - 1
          /\ ~closed["out"] /\ closed'["out"] => wg = 0]_vars

\* C23 witness: one forwarder has returned and the counter is 1, while the
\* other still holds a value and the coordinator waits.
MergeBarrierWitness ==
    /\ wg = 1
    /\ \E o \in Outputs : pc[o] = "done" /\ \E q \in Outputs : pc[q] = "send"
    /\ pc["closer"] = "wait"

\* ------------------------------------------------- the counters one by one
\* The characters the counters are tried on: the space, a small and a
\* capital letter, a digit and a punctuation mark.
Alphabet == {" ", "a", "Z", "1", "."}

\* Every string over Alphabet of length at most MaxLen.
Strings == UNION {[1 .. n -> Alphabet] : n \in 0 .. MaxLen}

\* The state of main's network when the splitter has passed on the
\* sentences of in and returned, while the counters, started, have not yet
\* taken a step.  The console is not observed.
SplitterDoneInit(in) ==
    /\ pc = [p \in Procs |->
               CASE p = "main" -> "wait"
                 [] p = "splitter" -> "done"
                 [] p = "letterCounter" -> "init"
                 [] p = "closer" -> "wait"
                 [] OTHER -> "recv"]
    /\ val = [p \in Procs |-> <<>>]
    /\ buf = [ch \in Chans |-> IF ch \in {"sToWc", "sToLc"} THEN in ELSE <<>>]
    /\ closed = [ch \in Chans |-> ch \in {"in", "sToWc", "sToLc"}]
    /\ cap = [ch \in Chans |-> IF ch \in DataChans THEN ChanCap ELSE 0]
    /\ sent = [ch \in Chans |-> IF ch \in {"in", "sToWc", "sToLc"} THEN in ELSE <<>>]
    /\ rcvd = [ch \in Chans |-> IF ch = "in" THEN in ELSE <<>>]
    /\ closes = [ch \in Chans |->
                   CASE ch = "in" -> <<"main">>
                     [] ch \in {"sToWc", "sToLc"} -> <<"splitter">>
                     [] OTHER -> <<>>]
    /\ wg = MergeInputs
    /\ re = "nil"
    /\ stdout = <<>>
    /\ logged = {}
    /\ panic = "none"
    /\ input = in
    /\ sendIdx = Len(in)
    /\ order = MainOrder
    /\ started = Len(MainOrder)

\* A sentence of main's corpus, then any string.
TwoSentencesInit ==
    \E i \in DOMAIN Corpus, s \in Strings : SplitterDoneInit(<<Corpus[i], s>>)

\* The word counter on its own.
WordCounterSpec == TwoSentencesInit /\ [][WordCounterStep]_vars

\* The number of spaces of a string.
Spaces(s) == Cardinality({i \in DOMAIN s : s[i] = " "})

\* strings.Join(tokens, sep)
RECURSIVE Join(_, _)
Join(tokens, sep) ==
    IF tokens = <<>> THEN <<>>
    ELSE IF Len(tokens) = 1 THEN tokens[1]
    ELSE tokens[1] \o <<sep>> \o Join(Tail(tokens), sep)

LetterCounterSpec == TwoSentencesInit /\ [][LetterCounterStep]_vars

\* The number of characters of a string that are one of cs.
CountOf(s, cs) == Cardinality({i \in DOMAIN s : s[i] \in cs})

\* C25: for every string the letter counter emits one value, tagged
\* "Letters", in the order of the strings; its count is the number of
\* characters of that string alone that are letters, small or capital:
\* spaces, digits and punctuation add nothing.  The expression is compiled
\* once, in the first step of the goroutine and before its first receive,
\* and is never nil when a string is matched.
LetterCounterResult ==
    /\ [](LET out == sent["lcToP"]
          IN  /\ Len(out) = Len(rcvd["sToLc"]) - Len(val["letterCounter"])
              /\ pc["letterCounter"] = "done" => Len(out) = Len(input)
              /\ \A i \in DOMAIN out :
                    /\ out[i].tag = "Letters"
                    /\ out[i].count = CountOf(input[i], Letter)
                    /\ out[i].count
                          = Len(input[i]) - CountOf(input[i], {" ", "1", "."})
              /\ re = "nil" <=> pc["letterCounter"] = "init"
              /\ panic = "none")
    /\ [][re' # re =>
             /\ re = "nil" /\ pc["letterCounter"] = "init"
             /\ rcvd["sToLc"] = <<>> /\ rcvd'["sToLc"] = <<>>]_vars

\* C25 witness: the letter counter has emitted 2 for a string of a small
\* letter, a digit and a capital, after the count of an earlier sentence.
LetterCounterResultWitness ==
    /\ Len(sent["lcToP"]) = 2
    /\ input[2] = <<"a", "1", "Z">>
    /\ sent["lcToP"][2] = [tag |-> "Letters", count |-> 2]

\* A started goroutine that has not returned, main included.
Live(p) == pc[p] \notin {"idle", "done", "exit"}

\* C26: whatever the number of sentences and the capacities, a state in
\* which no process can take a step is the state in which done is closed,
\* main has returned and every goroutine with it, without a panic; until
\* main has returned some live process is not blocked at a send, a receive
\* or the barrier, and can take a step.
DeadlockFree ==
    /\ ~ENABLED Next =>
          /\ closed["done"] /\ pc["main"] = "exit" /\ panic = "none"
          /\ \A p \in Procs \ {"main"} : pc[p] = "done"
    /\ pc["main"] # "exit" =>
          \E p \in Procs :
              /\ Live(p) /\ CanStep(p)
              /\ ~(BlockedOnSend(p) \/ BlockedOnRecv(p) \/ BlockedOnWaitGroup(p))

\* C26 witness: nothing can take a step any more: main has returned after
\* two sentences went through unbuffered channels next to buffered ones.
DeadlockFreeWitness ==
    /\ ~ENABLED Next
    /\ Len(input) = 2 /\ cap["in"] = 0 /\ cap["sToWc"] > 0
    /\ pc["main"] = "exit"

\* The two branches: the splitter's output, the counter on it, the counter's
\* output, the forwarder of merge on that, and what the counter computes.
Branches ==
    {[tag |-> "Words", from |-> "sToWc", counter |-> "wordCounter",
      to |-> "wcToP", forwarder |-> "output1"],
     [tag |-> "Letters", from |-> "sToLc", counter |-> "letterCounter",
      to |-> "lcToP", forwarder |-> "output2"]}

\* The count a branch makes of a sentence.
CountFor(b, sentence) ==
    IF b.tag = "Words" THEN WordCount(sentence) ELSE LetterCount(sentence)

\* The counts of a sequence of sentences.
CountsFor(b, q) == [i \in DOMAIN q |-> CountFor(b, q[i])]

\* Everything of a branch that is downstream of the splitter, the oldest
\* first: what the printer has received with the tag, what the forwarder
\* holds, what the counter's output buffers, and the counts to come of what
\* the counter holds and of what the splitter's output buffers.
InFlight(b) ==
    SelectSeq(rcvd["out"], LAMBDA c : c.tag = b.tag)
        \o val[b.forwarder] \o buf[b.to]
        \o CountsFor(b, val[b.counter]) \o CountsFor(b, buf[b.from])

\* C27: on each branch the values the splitter has sent are, one for one
\* and in order, those buffered before the counter, held by it, buffered
\* after it, held by the forwarder or received by the printer with the
\* branch's tag, so their numbers add up; the merge output holds none; and
\* the splitter has sent on a branch only what it has received from In.
Conservation ==
    /\ \A b \in Branches :
          /\ InFlight(b) = CountsFor(b, sent[b.from])
          /\ Len(sent[b.from]) =
                Len(buf[b.from]) + Len(val[b.counter]) + Len(buf[b.to])
                  + Len(val[b.forwarder])
                  + Len(SelectSeq(rcvd["out"], LAMBDA c : c.tag = b.tag))
          /\ IsPrefix(sent[b.from], rcvd["in"])
    /\ buf["out"] = <<>>
    /\ \A i \in DOMAIN rcvd["out"] : \E b \in Branches : rcvd["out"][i].tag = b.tag

\* C27 witness: the values are spread over the places: on the Words branch
\* one is held by the counter and one buffered behind it, on the Letters
\* branch one is held by the forwarder and one has reached the printer.
ConservationWitness ==
    /\ Len(val["wordCounter"]) = 1 /\ Len(buf["wcToP"]) = 1
    /\ Len(val["output2"]) = 1
    /\ \E i \in DOMAIN rcvd["out"] : rcvd["out"][i].tag = "Letters"

====
